---- MODULE Spec2Model ----
(***************************************************************************)
(* WineCharm: process-lifecycle and single-instance coordination.          *)
(*                                                                         *)
(* The module holds these state machines over one set of variables:        *)
(*   SpecRun   the process registry (running_processes), the launch        *)
(*             supervisor, the termination controller, the waiter threads, *)
(*             the liveness prober and the owner thread's idle queue;      *)
(*   SpecFair  the same machine in runs without forks, under the           *)
(*             scheduling of the threads and of the main loop;             *)
(*   SpecEnv   SpecFair with the descriptors in one wineprefix or in two;  *)
(*   SpecName  the runs without forks of two descriptors whose executables *)
(*             carry one name;                                             *)
(*   SpecCall  the runs without forks, with terminate_script called in any *)
(*             state of the registry;                                      *)
(*   SpecCli   the runs without forks, with a file handed to the window    *)
(*             and the thread that processes it;                           *)
(*   SpecProbe the runs without forks, with the prober's queries failing;  *)
(*   SpecTime  the runs without forks, with the waiter's sleep counted in  *)
(*             time units;                                                 *)
(*   SpecScan  the runs without forks, with a descriptor file that does    *)
(*             not load among those a group refresh goes through;          *)
(*   SpecKill  kill-all over the processes of the machine;                 *)
(*   SpecWipe  the runs without forks, with kill-all among them;           *)
(*   SpecStop  a stop over the processes of the machine;                   *)
(*   SpecGate  the start-up of instances around the rendezvous socket;     *)
(*   SpecLife  SpecGate with instances killed and SIGINT handled, and      *)
(*             SpecLifeFair, the same with main and the server thread      *)
(*             going on;                                                   *)
(*   SpecIpc   the accept loop of the bound instance and the messages it   *)
(*             resolves.                                                   *)
(* A specification leaves the variables of the others unchanged.           *)
(***************************************************************************)
EXTENDS Integers, Sequences, FiniteSets, TLC

\* ------------------------------------------------------------------ bounds
\* Number of successful spawns (Popen calls) in one run of the model.
MaxLaunch == 2
\* Callbacks waiting in the owner thread's idle queue.
MaxQueue == 2

\* ------------------------------------------------------- descriptors (.charm)
\* script.stem of the descriptors under prefixes_dir: the registry's keys.
Scripts == {"A", "B"}

\* The isolated environments (wineprefix paths) a descriptor may name.
Prefixes == {"X", "Y"}

\* Python's None for proc, pid and pgid.
None == 0

\* ---------------------------------------------------------------- variables
VARIABLES
    running_processes,  \* the dict, as the set of its items (one record per entry)
    procs,              \* the operating system's process table (live processes)
    launches,           \* launches[L]: the descriptor of the L-th spawned process
    waiter,             \* waiter[L]: position of launch L's monitor_process thread
    idle,               \* callbacks posted with GLib.idle_add, in posting order
    flowbox,            \* the descriptors that have a button in self.flowbox: all of
                        \* them (the list as create_script_list builds it) or none
                        \* (filter_script_list with a term no stem holds)
    ui,                 \* ui[d]: the play/stop button's icon, tooltip, click handler
    exe_exists,         \* exe_exists[d]: Path(exe_file).exists(), as the run finds it
    yaml,               \* yaml[d]: the wineprefix and exe_file entries of the descriptor file
    last,               \* the last handler the owner thread ran, and its outcome
    node,               \* SOCKET_FILE: None, or the instance whose bind created it
    primary,            \* the instance registered under the application id, or None
    dbus,               \* whether a session bus makes the application id unique
    inst,               \* inst[i]: an instance's arguments, threads and history
    backlog,            \* backlog[i]: connections sent to i's socket, not yet accepted
    posted,             \* the GLib.idle_add(process_cli_file, path) calls, in order
    workers,            \* the _process_cli_file threads started and not yet ended
    prober,             \* the monitor_processes thread: "run", or "dead" once it raised
    slept,              \* slept[L]: time units launch L's waiter has been in its sleep
    host,               \* the other processes of the machine and the last kill-all
    msgs                \* number of messages sent so far

runVars == <<running_processes, procs, launches, waiter, idle, flowbox, ui,
             exe_exists, yaml, last>>

gateVars == <<node, primary, dbus, inst, backlog, posted, workers, prober, slept,
             host, msgs>>

vars == <<running_processes, procs, launches, waiter, idle, flowbox, ui,
          exe_exists, yaml, last, node, primary, dbus, inst, backlog, posted,
          workers, prober, slept, host, msgs>>

\* The entries of a descriptor file; exe_file stands for the first 15
\* characters of the executable's name.
Charm(wineprefix, exe_file) == [wineprefix |-> wineprefix, exe_file |-> exe_file]

\* extract_yaml_info(script)[1]: the isolated environment of a descriptor.
Wineprefix(d) == yaml[d].wineprefix

\* Path(extract_yaml_info(script)[0]).stem[:15]
ExeName(d) == yaml[d].exe_file

\* ------------------------------------------------------- the dict as a set
\* script.stem in self.running_processes
HasKey(rp, k) == \E r \in rp : r.stem = k

\* self.running_processes.pop(k, None): the dict without the key.
DictPop(rp, k) == {r \in rp : r.stem # k}

\* self.running_processes[k] = v: the entry of the key is replaced.
DictSet(rp, v) == {r \in rp : r.stem # v.stem} \cup {v}

\* self.running_processes.get(k), for a key that is present.
DictGet(rp, k) == CHOOSE r \in rp : r.stem = k

\* The Run Record launch_script registers (proc is the Popen handle, named by
\* the launch; the play_icon it stores is a stop icon).
LaunchRecord(d, L, pid, pgid) ==
    [stem |-> d, proc |-> L, pid |-> pid, pgid |-> pgid, play_icon |-> "stop"]

\* The Run Record update_script_button_state and update_related_scripts_buttons
\* register for a discovered process: no handle, no pid, no group.
DiscoveredRecord(d) ==
    [stem |-> d, proc |-> None, pid |-> None, pgid |-> None, play_icon |-> "stop"]

\* ------------------------------------------------------- the process table
\* A process is [grp, kind]: grp is the launch that created its process group,
\* kind is "sh" (the Popen child, /bin/sh -c "cd .. && WINEPREFIX=.. wine x.exe"),
\* "exe" (the payload, named after the executable), "kid" (a process the
\* payload forked, named after the executable too) or "srv" (a worker the
\* compatibility layer forked into the same group, named otherwise).
Kinds == {"sh", "exe", "kid", "srv"}

\* What a launch may fork besides the shell and the payload.
Forks == {{}, {"kid"}, {"srv"}}

KindIdx(k) == CASE k = "sh" -> 0 [] k = "exe" -> 1 [] k = "kid" -> 2 [] OTHER -> 3

\* Process ids: the shell is its group's leader (preexec_fn=os.setsid).
Pid(p) == 10 * p.grp + KindIdx(p.kind)

Pgid(L) == 10 * L

\* The descriptor whose executable a process runs.
DescOf(p) == launches[p.grp]

\* pgrep -aif <exe stem[:15]>: the processes whose command line holds the name.
PgrepFull(ps, d) ==
    {p \in ps : ExeName(DescOf(p)) = ExeName(d) /\ p.kind \in {"sh", "exe", "kid"}}

\* pgrep -ai <exe stem[:15]>: the processes whose name holds it.
PgrepName(ps, d) ==
    {p \in ps : ExeName(DescOf(p)) = ExeName(d) /\ p.kind \in {"exe", "kid"}}

\* pgrep -aif WineCharm: command lines holding the application's name; the
\* shell's does, through WINEPREFIX=<winecharmdir>/Prefixes/...
WinecharmPids(ps) == {p \in ps : p.kind = "sh"}

\* ------------------------------------------------------------------- widgets
\* find_button_by_script_stem: the flowbox child labelled with the stem, or None.
find_button_by_script_stem(fb, d) == d \in fb

Button(icon, tooltip, handler) ==
    [icon |-> icon, tooltip |-> tooltip, handler |-> handler]

\* ------------------------------------------------------ the group refresh
\* A refresh that looks at every descriptor, whatever its wineprefix.
RescannedAll(prefix) == Scripts

\* The descriptors update_related_scripts_buttons looks at (runs pgrep for):
\* those whose wineprefix is the one passed in.
Rescanned(prefix) == {d \in Scripts : Wineprefix(d) = prefix}

\* The descriptors update_related_scripts_buttons marks as running: those of
\* the prefix for which pgrep lists a process and whose button is found.
RelatedRunning(ps, fb, prefix) ==
    {d \in Rescanned(prefix) : /\ PgrepName(ps, d) # {}
                               /\ find_button_by_script_stem(fb, d)}

\* update_related_scripts_buttons(wineprefix): each marked descriptor gets the
\* stop icon, the tooltip "Stop" and a handle-less Run Record in place of
\* whatever record it had.  The result is the pair <<registry, buttons>>.
update_related_scripts_buttons(rp, u, ps, fb, prefix) ==
    LET marked == RelatedRunning(ps, fb, prefix)
    IN  << {r \in rp : r.stem \notin marked} \cup {DiscoveredRecord(d) : d \in marked},
           [d \in Scripts |-> IF d \in marked
                               THEN Button("stop", "Stop", u[d].handler)
                               ELSE u[d]] >>

\* reset_buttons(play_button, play_icon, script): the icon stored in the record
\* is put back, the old click handler is disconnected and toggle_play_stop is
\* connected with the button looked up at click time.
reset_buttons(u, d, play_icon) ==
    [u EXCEPT ![d] = Button(play_icon, u[d].tooltip, "reset")]

\* ------------------------------------------------------------ terminate_script
\* A process listing, in the order pgrep prints it (ascending pid).
RECURSIVE Listing(_)
Listing(ps) ==
    IF ps = {} THEN <<>>
    ELSE LET p == CHOOSE x \in ps : \A y \in ps : Pid(x) <= Pid(y)
         IN  <<p>> \o Listing(ps \ {p})

\* The loop over pids_to_kill.  st is [rp, ui, ps, killed]: registry, buttons,
\* live processes, and whether some os.kill succeeded.  A pid of
\* winecharm_pids is skipped; a pid that is gone raises ProcessLookupError and
\* is skipped; after a kill the buttons are reset and the group is refreshed.
RECURSIVE KillLoop(_, _, _, _, _, _)
KillLoop(pids, skip, st, d, info, fb) ==
    IF pids = <<>> THEN st
    ELSE LET p == Head(pids)
             rest == Tail(pids)
         IN  IF p \in skip \/ p \notin st.ps
             THEN KillLoop(rest, skip, st, d, info, fb)
             ELSE LET ps1 == st.ps \ {p}
                      u1 == reset_buttons(st.ui, d, info.play_icon)
                      ref == update_related_scripts_buttons(st.rp, u1, ps1, fb, Wineprefix(d))
                  IN  KillLoop(rest, skip,
                               [rp |-> ref[1], ui |-> ref[2], ps |-> ps1, killed |-> TRUE],
                               d, info, fb)

\* terminate_script(script) for a registered descriptor: the record is popped,
\* the processes pgrep lists for the executable name are killed one by one.
\* gone: the listed processes that exit between the listing and their kill.
terminate_script(rp, u, ps, fb, d, gone) ==
    LET info == DictGet(rp, d)
        rp0 == DictPop(rp, d)
        pids_to_kill == Listing(PgrepFull(ps, d))
        winecharm_pids == WinecharmPids(ps)
    IN  IF pids_to_kill = <<>>
        THEN [rp |-> rp0, ui |-> u, ps |-> ps, killed |-> FALSE]
        ELSE KillLoop(pids_to_kill, winecharm_pids,
                      [rp |-> rp0, ui |-> u, ps |-> ps \ gone, killed |-> FALSE],
                      d, info, fb)

\* ---------------------------------------------------------------------- Init
\* The value of last while no click or callback of the owner thread has just run.
Quiet == [op |-> "-", d |-> "-", out |-> "-", pgid |-> None, scan |-> {}]

\* ------------------------------------------------- the rest of the machine
\* The processes of the machine besides those the launches create: process 1,
\* the application's own process and two others.
InitPid == 1

SelfPid == 2

HostPids == {InitPid, SelfPid, 3, 4}

\* What pgrep -f sees of a command line: name, whether it holds the
\* application's name; exe, whether it holds ".exe".
CmdLine(name, exe) == [name |-> name, exe |-> exe]

\* host: cmd[p] the command line of process p, alive the processes that
\* exist, foreign those of another user (a signal to them is refused), tried
\* the pids the last kill-all called os.kill with, in that order, raised
\* whether an exception left its kill loop.
HostIdle ==
    [cmd |-> [p \in HostPids |-> CmdLine(p = SelfPid, FALSE)],
     alive |-> {InitPid, SelfPid}, foreign |-> {InitPid}, tried |-> <<>>,
     raised |-> FALSE]

\* No instance is being started while the registry is exercised.
GateIdle ==
    /\ node = None
    /\ primary = None
    /\ dbus = TRUE
    /\ inst = <<>>
    /\ backlog = <<>>
    /\ posted = <<>>
    /\ workers = {}
    /\ prober = "run"
    /\ slept = [L \in 1..MaxLaunch |-> 0]
    /\ host = HostIdle
    /\ msgs = 0

InitRun ==
    /\ GateIdle
    /\ running_processes = {}
    /\ procs = {}
    /\ launches = <<>>
    /\ waiter = <<>>
    /\ idle = <<>>
    /\ flowbox \in {Scripts, {}}
    /\ ui = [d \in Scripts |-> Button("play", "Play", "created")]
    /\ exe_exists \in [Scripts -> BOOLEAN]
    /\ yaml = [d \in Scripts |-> Charm("X", d)]
    /\ last = Quiet

\* The processes of launch L's group, and the handle's process.
Group(ps, L) == {p \in ps : p.grp = L}

Shell(L) == [grp |-> L, kind |-> "sh"]

\* ------------------------------------------------------------- launch_script
\* update_running_script_buttons: every registered descriptor whose button is
\* found shows the stop icon.
update_running_script_buttons(rp, u, fb) ==
    [x \in Scripts |-> IF HasKey(rp, x) /\ find_button_by_script_stem(fb, x)
                       THEN Button("stop", "Stop", u[x].handler)
                       ELSE u[x]]

\* What toggle_play_stop does to the button after launch_script returned.
ShowStop(u, d) == [u EXCEPT ![d] = Button("stop", "Stop", u[d].handler)]

\* What toggle_play_stop does to the button after terminate_script returned.
ShowPlay(u, d) == [u EXCEPT ![d] = Button("play", "Play", u[d].handler)]

\* launch_script without the return after the dialog: the command is run
\* although the executable is not there.
LaunchTargetMissingNoReturn(d) ==
    LET L == Len(launches) + 1
        rp1 == DictSet(running_processes, [stem |-> d, proc |-> L, pid |-> 10 * L,
                                           pgid |-> 10 * L, play_icon |-> "stop"])
    IN  /\ ~exe_exists[d]
        /\ L <= MaxLaunch
        /\ launches' = Append(launches, d)
        /\ procs' = procs \cup {[grp |-> L, kind |-> "sh"]}
        /\ waiter' = Append(waiter, "wait")
        /\ running_processes' = rp1
        /\ ui' = [ui EXCEPT ![d] = [icon |-> "stop", tooltip |-> "Stop", handler |-> ui[d].handler]]
        /\ last' = [op |-> "launch", d |-> d, out |-> "exe_not_found_dialog", pgid |-> 0, scan |-> {}]
        /\ UNCHANGED <<idle, flowbox, exe_exists, yaml>>
        /\ UNCHANGED gateVars

\* The executable is not at its recorded path: the dialog that offers to
\* locate it is presented and launch_script returns.
LaunchTargetMissing(d) ==
    /\ ~exe_exists[d]
    /\ ui' = ShowStop(ui, d)
    /\ last' = [op |-> "launch", d |-> d, out |-> "exe_not_found_dialog", pgid |-> None, scan |-> {}]
    /\ UNCHANGED <<running_processes, procs, launches, waiter, idle, flowbox, exe_exists, yaml>>
    /\ UNCHANGED gateVars

\* find_lnk_files or Popen raises: caught by the handler's except, printed.
LaunchSpawnError(d) ==
    /\ exe_exists[d]
    /\ ui' = ShowStop(ui, d)
    /\ last' = [op |-> "launch", d |-> d, out |-> "error", pgid |-> None, scan |-> {}]
    /\ UNCHANGED <<running_processes, procs, launches, waiter, idle, flowbox, exe_exists, yaml>>
    /\ UNCHANGED gateVars

\* Popen succeeded, and building the record raises on button.get_first_child()
\* because the button passed in is None: caught by the same except, after the
\* process was spawned; no record, no waiter thread.
LaunchButtonNone(d, fork) ==
    LET L == Len(launches) + 1
    IN  /\ exe_exists[d]
        /\ L <= MaxLaunch
        /\ launches' = Append(launches, d)
        /\ procs' = procs \cup {[grp |-> L, kind |-> k] : k \in {"sh", "exe"} \cup fork}
        /\ waiter' = Append(waiter, "none")
        /\ ui' = ShowStop(ui, d)
        /\ last' = [op |-> "launch", d |-> d, out |-> "error", pgid |-> None, scan |-> {}]
        /\ UNCHANGED <<running_processes, idle, flowbox, exe_exists, yaml>>
        /\ UNCHANGED gateVars

\* The launch succeeds: the process runs in its own group, the record is
\* registered with handle, pid and group id, the waiter thread is started.
LaunchOk(d, fork) ==
    LET L == Len(launches) + 1
        rp1 == DictSet(running_processes, LaunchRecord(d, L, Pid(Shell(L)), Pgid(L)))
    IN  /\ exe_exists[d]
        /\ L <= MaxLaunch
        /\ launches' = Append(launches, d)
        /\ procs' = procs \cup {[grp |-> L, kind |-> k] : k \in {"sh", "exe"} \cup fork}
        /\ waiter' = Append(waiter, "wait")
        /\ running_processes' = rp1
        /\ ui' = ShowStop(update_running_script_buttons(rp1, ui, flowbox), d)
        /\ last' = [op |-> "launch", d |-> d, out |-> "launched", pgid |-> Pgid(L), scan |-> {}]
        /\ UNCHANGED <<idle, flowbox, exe_exists, yaml>>
        /\ UNCHANGED gateVars

\* launch_script(script, play_stop_button, button); button is FALSE for None,
\* forks is what the command may fork in the run.
launch_script(d, button, forks) ==
    \/ LaunchTargetMissing(d)
    \/ LaunchSpawnError(d)
    \/ \E fork \in forks : ~button /\ LaunchButtonNone(d, fork)
    \/ \E fork \in forks : button /\ LaunchOk(d, fork)

\* The stop branch of toggle_play_stop: terminate_script, then the play icon.
StopBranch(d) ==
    \E gone \in SUBSET (PgrepFull(procs, d) \ WinecharmPids(procs)) :
        LET st == terminate_script(running_processes, ui, procs, flowbox, d, gone)
        IN  /\ running_processes' = st.rp
            /\ procs' = st.ps
            /\ ui' = ShowPlay(st.ui, d)
            /\ last' = [op |-> "stop", d |-> d,
                        out |-> IF st.killed THEN "killed"
                                ELSE IF PgrepFull(procs, d) = {} THEN "no_processes"
                                ELSE "none_killed",
                        pgid |-> DictGet(running_processes, d).pgid,
                        scan |-> IF st.killed THEN Rescanned(Wineprefix(d)) ELSE {}]
            /\ UNCHANGED <<launches, waiter, idle, flowbox, exe_exists, yaml>>
            /\ UNCHANGED gateVars

\* toggle_play_stop without the registry test: every click launches.
toggle_always_launches(d, button, forks) == launch_script(d, button, forks)

\* toggle_play_stop(script, play_stop_button, button)
toggle_play_stop(d, button, forks) ==
    \/ HasKey(running_processes, d) /\ StopBranch(d)
    \/ ~HasKey(running_processes, d) /\ launch_script(d, button, forks)

\* The button argument of a click.  The "Launch" entry of the options view
\* passes the script's own button; a play button whose handler reset_buttons
\* or process_ended connected passes find_button_by_script_stem(stem), looked
\* up when the click arrives.
ClickButtons(d) ==
    {TRUE} \cup (IF ui[d].handler = "reset"
                 THEN {find_button_by_script_stem(flowbox, d)} ELSE {})

\* The user clicks the play/stop control of a descriptor.
Toggle(d) == \E button \in ClickButtons(d) : toggle_play_stop(d, button, Forks)

\* The same click in a run whose payloads fork nothing.
ToggleNoFork(d) == \E button \in ClickButtons(d) : toggle_play_stop(d, button, {{}})

\* ------------------------------------------------------ idle-queue callbacks
Callback(fn, arg) == [fn |-> fn, arg |-> arg]

\* process_ended that retires nothing.
process_ended_keeps_record(d) ==
    /\ last' = [op |-> "process_ended", d |-> d, out |-> "noop", pgid |-> 0, scan |-> {}]
    /\ UNCHANGED <<running_processes, ui, flowbox>>

\* A process_ended without the test of line 1599: the button is reset and the
\* group refreshed whether or not the stem is registered.
process_ended_untested(d) ==
    LET rp0 == DictPop(running_processes, d)
        u0 == [ui EXCEPT ![d] = Button("play", "Play", "reset")]
        ref == update_related_scripts_buttons(rp0, u0, procs, flowbox, Wineprefix(d))
    IN  /\ running_processes' = ref[1]
        /\ ui' = ref[2]
        /\ last' = [op |-> "process_ended", d |-> d, out |-> "retired", pgid |-> None,
                    scan |-> Rescanned(Wineprefix(d))]
        /\ UNCHANGED flowbox

\* process_ended(script_stem): a registered record is popped, the button shows
\* play and gets the toggle handler, the record's group is refreshed.
process_ended(d) ==
    IF HasKey(running_processes, d)
    THEN LET rp0 == DictPop(running_processes, d)
             u0 == [ui EXCEPT ![d] = Button("play", "Play", "reset")]
             ref == update_related_scripts_buttons(rp0, u0, procs, flowbox, Wineprefix(d))
         IN  /\ running_processes' = ref[1]
             /\ ui' = ref[2]
             /\ last' = [op |-> "process_ended", d |-> d, out |-> "retired", pgid |-> None,
                         scan |-> Rescanned(Wineprefix(d))]
             /\ UNCHANGED flowbox
    ELSE /\ last' = [op |-> "process_ended", d |-> d, out |-> "noop", pgid |-> None, scan |-> {}]
         /\ UNCHANGED <<running_processes, ui, flowbox>>

\* The idle callback update_related_scripts_buttons(Path(wineprefix)).
RelatedCallback(prefix) ==
    LET ref == update_related_scripts_buttons(running_processes, ui, procs, flowbox, prefix)
    IN  /\ running_processes' = ref[1]
        /\ ui' = ref[2]
        /\ last' = [op |-> "related", d |-> "-", out |-> prefix, pgid |-> None,
                    scan |-> Rescanned(prefix)]
        /\ UNCHANGED flowbox

\* The owner thread's main loop runs the oldest idle callback.
IdleRun ==
    /\ idle # <<>>
    /\ idle' = Tail(idle)
    /\ LET cb == Head(idle)
       IN  \/ cb.fn = "process_ended" /\ process_ended(cb.arg)
           \/ cb.fn = "related" /\ RelatedCallback(cb.arg)
    /\ UNCHANGED <<procs, launches, waiter, exe_exists, yaml>>
    /\ UNCHANGED gateVars

\* ------------------------------------------------- launch_script.monitor_process
\* proc.wait() returns: process_ended is posted, then the thread sleeps 5
\* seconds.  (create_scripts_for_lnk_files is posted as well; the prefix
\* gains no shortcut in the runs modelled here, the callback then writes no
\* descriptor and touches neither the registry nor a button, and it is left
\* out of the queue.)
WaiterExit(L) ==
    /\ L \in DOMAIN waiter
    /\ waiter[L] = "wait"
    /\ Shell(L) \notin procs
    /\ Len(idle) + 1 <= MaxQueue
    /\ idle' = Append(idle, Callback("process_ended", launches[L]))
    /\ waiter' = [waiter EXCEPT ![L] = "sleep"]
    /\ UNCHANGED <<running_processes, procs, launches, flowbox, ui, exe_exists, yaml>>
    /\ UNCHANGED gateVars
    /\ last' = Quiet

\* After the settle delay the group refresh is posted and the thread ends.
WaiterSettle(L) ==
    /\ L \in DOMAIN waiter
    /\ waiter[L] = "sleep"
    /\ Len(idle) + 1 <= MaxQueue
    /\ idle' = Append(idle, Callback("related", Wineprefix(launches[L])))
    /\ waiter' = [waiter EXCEPT ![L] = "done"]
    /\ UNCHANGED <<running_processes, procs, launches, flowbox, ui, exe_exists, yaml>>
    /\ UNCHANGED gateVars
    /\ last' = Quiet

\* ---------------------------------------------------------- monitor_processes
\* Whether the script's stem[:15] occurs in the command lines of the processes
\* that run its executable: it does when the descriptor is named after the
\* executable, not when it is named after the product.
StemNamesExe(d) == d = "A"

\* pgrep -aif <script stem[:15]>
PgrepStem(ps, d) == IF StemNamesExe(d) THEN PgrepFull(ps, d) ELSE {}

\* The verdict of one probe of a record.
ProbeFinished(ps, r) ==
    IF r.proc # None
    THEN Shell(r.proc) \notin ps                           \* proc.poll() is not None
    ELSE IF r.pgid # None
    THEN Group(ps, r.pgid \div 10) = {}                    \* os.killpg(pgid, 0) fails
    ELSE \/ PgrepStem(ps, r.stem) = {}                     \* no output, or pgrep exits 1
         \/ \E p \in PgrepStem(ps, r.stem) : p \in WinecharmPids(ps)

\* The finished_processes of one cycle, in the order of the keys.
RECURSIVE FinishedCallbacks(_, _, _)
FinishedCallbacks(keys, rp, ps) ==
    IF keys = {} THEN <<>>
    ELSE LET k == CHOOSE x \in keys : \A y \in keys : x = y \/ DictGet(rp, x).pid <= DictGet(rp, y).pid
         IN  (IF ProbeFinished(ps, DictGet(rp, k))
              THEN <<Callback("process_ended", k)>> ELSE <<>>)
             \o FinishedCallbacks(keys \ {k}, rp, ps)

\* A prober that retires the finished records itself, from its own thread.
ProbeCycleRetires ==
    LET posts == FinishedCallbacks({r.stem : r \in running_processes}, running_processes, procs)
    IN  /\ posts # <<>>
        /\ Len(idle) + Len(posts) <= MaxQueue
        /\ idle' = idle \o posts
        /\ running_processes' = {r \in running_processes : ~ProbeFinished(procs, r)}
        /\ last' = Quiet
        /\ UNCHANGED <<procs, launches, waiter, flowbox, ui, exe_exists, yaml>>
        /\ UNCHANGED gateVars

\* One cycle of the prober thread: after the sleep it probes every record and
\* posts process_ended for the finished ones; it writes nothing else.
ProbeCycle ==
    LET posts == FinishedCallbacks({r.stem : r \in running_processes}, running_processes, procs)
    IN  /\ posts # <<>>
        /\ Len(idle) + Len(posts) <= MaxQueue
        /\ idle' = idle \o posts
        /\ last' = Quiet
        /\ UNCHANGED <<running_processes, procs, launches, waiter, flowbox, ui, exe_exists, yaml>>
        /\ UNCHANGED gateVars

\* ---------------------------------------------------------------- environment
\* A process exits or is killed from outside the application.
ProcessExits(p) ==
    /\ p \in procs
    /\ procs' = procs \ {p}
    /\ UNCHANGED <<running_processes, launches, waiter, idle, flowbox, ui, exe_exists, yaml>>
    /\ UNCHANGED gateVars
    /\ last' = Quiet

NextRun ==
    \/ \E d \in Scripts : Toggle(d)
    \/ IdleRun
    \/ \E L \in 1..MaxLaunch : WaiterExit(L)
    \/ \E L \in 1..MaxLaunch : WaiterSettle(L)
    \/ ProbeCycle
    \/ \E p \in procs : ProcessExits(p)

SpecRun == InitRun /\ [][NextRun]_vars

\* ------------------------------------------------------------ fair scheduling
\* Runs in which every executable exists and no payload forks, under the
\* scheduling the code gives its threads: the main loop runs a queued idle
\* callback, a waiter blocked in proc.wait() or in its sleep goes on, the
\* prober wakes up every 3 seconds.
InitFair ==
    /\ InitRun
    /\ exe_exists = [d \in Scripts |-> TRUE]

NextFair ==
    \/ \E d \in Scripts : ToggleNoFork(d)
    \/ IdleRun
    \/ \E L \in 1..MaxLaunch : WaiterExit(L)
    \/ \E L \in 1..MaxLaunch : WaiterSettle(L)
    \/ ProbeCycle
    \/ \E p \in procs : ProcessExits(p)

SpecFair ==
    /\ InitFair
    /\ [][NextFair]_vars
    /\ WF_vars(IdleRun)
    /\ WF_vars(\E L \in 1..MaxLaunch : WaiterExit(L))
    /\ WF_vars(\E L \in 1..MaxLaunch : WaiterSettle(L))
    /\ WF_vars(ProbeCycle)

\* The same runs with the second descriptor in the environment of the first
\* or in one of its own.  GLib.idle_add never blocks a waiter: a waiter that
\* finds room in the queue again and again does post (strong fairness), so
\* the bound on the queue cannot hold it back for ever.
InitEnv ==
    /\ GateIdle
    /\ running_processes = {}
    /\ procs = {}
    /\ launches = <<>>
    /\ waiter = <<>>
    /\ idle = <<>>
    /\ flowbox \in {Scripts, {}}
    /\ ui = [d \in Scripts |-> Button("play", "Play", "created")]
    /\ exe_exists = [d \in Scripts |-> TRUE]
    /\ yaml \in {[d \in Scripts |-> Charm(IF d = "A" THEN "X" ELSE prefix, d)] :
                    prefix \in Prefixes}
    /\ last = Quiet

SpecEnv ==
    /\ InitEnv
    /\ [][NextFair]_vars
    /\ WF_vars(IdleRun)
    /\ SF_vars(\E L \in 1..MaxLaunch : WaiterExit(L))
    /\ SF_vars(\E L \in 1..MaxLaunch : WaiterSettle(L))
    /\ WF_vars(ProbeCycle)

\* ----------------------------------------------- terminate_script, called
\* terminate_script that does not test the registry: it lists and kills
\* whether or not the descriptor has a record.
terminate_without_test(rp, u, ps, fb, d, gone) ==
    IF HasKey(rp, d) THEN terminate_script(rp, u, ps, fb, d, gone)
    ELSE [rp |-> rp, ui |-> u, ps |-> ps \ (PgrepFull(ps, d) \ WinecharmPids(ps)),
          killed |-> TRUE]

\* terminate_script(script) from its first line: without a record for the
\* stem it prints "No running process found" and returns.
terminate_script_call(rp, u, ps, fb, d, gone) ==
    IF HasKey(rp, d) THEN terminate_script(rp, u, ps, fb, d, gone)
    ELSE [rp |-> rp, ui |-> u, ps |-> ps, killed |-> FALSE]

\* A call of terminate_script(d) on the owner thread, whatever the registry
\* holds (toggle_play_stop calls it for registered descriptors only).
TerminateCall(d) ==
    \E gone \in SUBSET (PgrepFull(procs, d) \ WinecharmPids(procs)) :
        LET st == terminate_script_call(running_processes, ui, procs, flowbox, d, gone)
        IN  /\ running_processes' = st.rp
            /\ procs' = st.ps
            /\ ui' = st.ui
            /\ last' = [op |-> "terminate", d |-> d,
                        out |-> IF st.killed THEN "killed" ELSE "returned",
                        pgid |-> None,
                        scan |-> IF st.killed THEN Rescanned(Wineprefix(d)) ELSE {}]
            /\ UNCHANGED <<launches, waiter, idle, flowbox, exe_exists, yaml>>
            /\ UNCHANGED gateVars

NextCall ==
    \/ \E d \in Scripts : TerminateCall(d)
    \/ \E d \in Scripts : ToggleNoFork(d)
    \/ IdleRun
    \/ \E L \in 1..MaxLaunch : WaiterExit(L)
    \/ \E L \in 1..MaxLaunch : WaiterSettle(L)
    \/ ProbeCycle
    \/ \E p \in procs : ProcessExits(p)

SpecCall == InitFair /\ [][NextCall]_vars

\* ------------------------------------------------- files handed to the window
\* Files handed to process_cli_file in one run of the model.
MaxCli == 1

\* The descriptor create_yaml_file writes for an executable: its stem is the
\* program name, its wineprefix the one made for the executable.  The files
\* handed over are the executables of the descriptors, so the descriptor
\* written is the one that exists.
CliFiles == Scripts

\* The accept thread (or process_cli_file_when_ready) posts
\* process_cli_file(path) for the executable of descriptor d.
CliFilePosted(d) ==
    /\ msgs < MaxCli
    /\ msgs' = msgs + 1
    /\ posted' = Append(posted, [by |-> 0, id |-> msgs + 1, path |-> d])
    /\ last' = Quiet
    /\ UNCHANGED <<node, primary, dbus, slept, host, prober, inst, backlog, workers>>
    /\ UNCHANGED <<running_processes, procs, launches, waiter, idle, flowbox, ui,
                   exe_exists, yaml>>

\* The owner thread runs process_cli_file(file_path): the spinner is shown
\* and a thread is started on _process_cli_file.
process_cli_file ==
    /\ posted # <<>>
    /\ posted' = Tail(posted)
    /\ workers' = workers \cup {Head(posted)}
    /\ last' = [op |-> "process_cli_file", d |-> Head(posted).path, out |-> "started",
                pgid |-> None, scan |-> {}]
    /\ UNCHANGED <<node, primary, dbus, slept, host, prober, inst, backlog, msgs>>
    /\ UNCHANGED <<running_processes, procs, launches, waiter, idle, flowbox, ui,
                   exe_exists, yaml>>

\* add_or_update_script_button(script_path): a row found for the stem is
\* removed and the stem's record is popped; a new row is inserted.  The
\* result is the pair <<registry, flowbox>>.
add_or_update_script_button(rp, fb, d) ==
    << IF find_button_by_script_stem(fb, d) THEN DictPop(rp, d) ELSE rp,
       fb \cup {d} >>

\* The thread of _process_cli_file(file_path): create_yaml_file writes the
\* descriptor and calls add_or_update_script_button, then create_script_list
\* is posted to the idle queue.
process_cli_file_thread(w) ==
    LET res == add_or_update_script_button(running_processes, flowbox, w.path)
    IN  /\ w \in workers
        /\ Len(idle) + 1 <= MaxQueue
        /\ workers' = workers \ {w}
        /\ running_processes' = res[1]
        /\ flowbox' = res[2]
        /\ idle' = Append(idle, Callback("create_script_list", "-"))
        /\ last' = Quiet
        /\ UNCHANGED <<node, primary, dbus, slept, host, prober, inst, backlog, posted, msgs>>
        /\ UNCHANGED <<procs, launches, waiter, ui, exe_exists, yaml>>

\* The idle callback create_script_list: the rows are removed and one is made
\* for every descriptor find_python_scripts returns.
create_script_list ==
    /\ idle # <<>>
    /\ Head(idle).fn = "create_script_list"
    /\ idle' = Tail(idle)
    /\ flowbox' = Scripts
    /\ last' = [op |-> "create_script_list", d |-> "-", out |-> "listed",
                pgid |-> None, scan |-> {}]
    /\ UNCHANGED <<running_processes, procs, launches, waiter, ui, exe_exists, yaml>>
    /\ UNCHANGED gateVars

NextCli ==
    \/ \E d \in CliFiles : CliFilePosted(d)
    \/ process_cli_file
    \/ \E w \in workers : process_cli_file_thread(w)
    \/ create_script_list
    \/ \E d \in Scripts : ToggleNoFork(d)
    \/ IdleRun
    \/ \E L \in 1..MaxLaunch : WaiterExit(L)
    \/ \E L \in 1..MaxLaunch : WaiterSettle(L)
    \/ ProbeCycle
    \/ \E p \in procs : ProcessExits(p)

SpecCli == InitFair /\ [][NextCli]_vars

\* ------------------------------------------- the prober and failing queries
\* What the operating system answers the prober in one cycle: its queries
\* work; the pgrep command is not there (check_output raises
\* FileNotFoundError); signalling a group is not permitted (os.killpg raises
\* PermissionError).
Faults == {"none", "pgrep_missing", "killpg_eperm"}

\* The probe of record r raises an exception monitor_processes does not
\* catch (it catches ProcessLookupError and CalledProcessError).
ProbeRaises(ps, r, fault) ==
    /\ ~(r.proc # None /\ Shell(r.proc) \notin ps)
    /\ \/ r.pgid # None /\ fault = "killpg_eperm" /\ Group(ps, r.pgid \div 10) # {}
       \/ r.pgid = None /\ fault = "pgrep_missing"

\* One cycle of monitor_processes under an answer of the operating system.
\* An exception that is not caught ends the thread before the loop that
\* posts process_ended is reached.
monitor_processes(fault) ==
    /\ prober = "run"
    /\ IF \E r \in running_processes : ProbeRaises(procs, r, fault)
       THEN /\ prober' = "dead"
            /\ UNCHANGED idle
       ELSE LET posts == FinishedCallbacks({r.stem : r \in running_processes},
                                          running_processes, procs)
            IN  /\ posts # <<>>
                /\ Len(idle) + Len(posts) <= MaxQueue
                /\ idle' = idle \o posts
                /\ UNCHANGED prober
    /\ last' = Quiet
    /\ UNCHANGED <<running_processes, procs, launches, waiter, flowbox, ui, exe_exists, yaml>>
    /\ UNCHANGED <<node, primary, dbus, slept, host, inst, backlog, posted, workers, msgs>>

NextProbe ==
    \/ \E fault \in Faults : monitor_processes(fault)
    \/ \E d \in Scripts : ToggleNoFork(d)
    \/ IdleRun
    \/ \E L \in 1..MaxLaunch : WaiterExit(L)
    \/ \E L \in 1..MaxLaunch : WaiterSettle(L)
    \/ \E p \in procs : ProcessExits(p)

SpecProbe == InitFair /\ [][NextProbe]_vars

\* ------------------------------------------- two descriptors, one file name
\* Runs in which the executables of the two descriptors, in two prefixes,
\* carry the same name (setup.exe in one game's prefix and in another's).
InitName ==
    /\ GateIdle
    /\ running_processes = {}
    /\ procs = {}
    /\ launches = <<>>
    /\ waiter = <<>>
    /\ idle = <<>>
    /\ flowbox \in {Scripts, {}}
    /\ ui = [d \in Scripts |-> Button("play", "Play", "created")]
    /\ exe_exists = [d \in Scripts |-> TRUE]
    /\ yaml = [d \in Scripts |-> Charm(IF d = "A" THEN "X" ELSE "Y", "setup")]
    /\ last = Quiet

SpecName == InitName /\ [][NextFair]_vars

\* -------------------------------------------------- the waiter and its delay
\* time.sleep(5) of monitor_process, in time units.
SettleDelay == 5

\* The waiter of launch L is in its sleep.
Sleeping(L) == L \in DOMAIN waiter /\ waiter[L] = "sleep"

\* A waiter that posts the group refresh without having slept.
monitor_process_refresh_at_once(L) ==
    /\ Sleeping(L)
    /\ Len(idle) + 1 <= MaxQueue
    /\ idle' = Append(idle, Callback("related", Wineprefix(launches[L])))
    /\ waiter' = [waiter EXCEPT ![L] = "done"]
    /\ UNCHANGED <<running_processes, procs, launches, flowbox, ui, exe_exists, yaml>>
    /\ UNCHANGED gateVars
    /\ last' = Quiet

\* One time unit passes for the waiters that are in their sleep.
Tick ==
    /\ \E L \in 1..MaxLaunch : Sleeping(L) /\ slept[L] < SettleDelay
    /\ slept' = [L \in 1..MaxLaunch |->
                    IF Sleeping(L) /\ slept[L] < SettleDelay THEN slept[L] + 1 ELSE slept[L]]
    /\ UNCHANGED runVars
    /\ UNCHANGED <<node, primary, dbus, inst, backlog, posted, workers, prober, host,
                   msgs>>

\* The sleep is over: the group refresh is posted and the thread ends.
monitor_process_refresh(L) ==
    /\ Sleeping(L)
    /\ slept[L] = SettleDelay
    /\ Len(idle) + 1 <= MaxQueue
    /\ idle' = Append(idle, Callback("related", Wineprefix(launches[L])))
    /\ waiter' = [waiter EXCEPT ![L] = "done"]
    /\ UNCHANGED <<running_processes, procs, launches, flowbox, ui, exe_exists, yaml>>
    /\ UNCHANGED gateVars
    /\ last' = Quiet

NextTime ==
    \/ \E L \in 1..MaxLaunch : WaiterExit(L)
    \/ Tick
    \/ \E L \in 1..MaxLaunch : monitor_process_refresh(L)
    \/ \E d \in Scripts : ToggleNoFork(d)
    \/ IdleRun
    \/ ProbeCycle
    \/ \E p \in procs : ProcessExits(p)

SpecTime == InitFair /\ [][NextTime]_vars

\* ------------------------------------------- a descriptor that does not load
\* A .charm file from which yaml.safe_load returns no mapping (an empty file
\* gives None, a list or a bare word a list or a string): extract_yaml_info
\* calls data.get on it, which raises AttributeError.
NoMapping == "?"

\* What find_python_scripts returns, newest file first: the descriptors in
\* either order and, in some runs, one file that does not load, anywhere.
ScanFiles ==
    LET orders == {<<"A", "B">>, <<"B", "A">>}
        Insert(seq, k) == SubSeq(seq, 1, k) \o <<NoMapping>> \o SubSeq(seq, k + 1, Len(seq))
    IN  orders \cup {Insert(seq, k) : seq \in orders, k \in 0..2}

\* The loop of update_related_scripts_buttons over the files, in order.  st is
\* [rp, ui, scan, raised]: registry, buttons, the descriptors of the prefix
\* examined so far, and whether extract_yaml_info raised, which ends the loop.
RECURSIVE related_loop(_, _, _, _, _)
related_loop(files, st, ps, fb, prefix) ==
    IF files = <<>> THEN st
    ELSE LET d == Head(files)
         IN  IF d = NoMapping THEN [st EXCEPT !.raised = TRUE]
             ELSE IF Wineprefix(d) # prefix
             THEN related_loop(Tail(files), st, ps, fb, prefix)
             ELSE LET st1 == [st EXCEPT !.scan = @ \cup {d}]
                  IN  IF PgrepName(ps, d) # {} /\ find_button_by_script_stem(fb, d)
                      THEN related_loop(Tail(files),
                               [st1 EXCEPT !.rp = DictSet(@, DiscoveredRecord(d)),
                                           !.ui = ShowStop(@, d)],
                               ps, fb, prefix)
                      ELSE related_loop(Tail(files), st1, ps, fb, prefix)

\* The idle callback update_related_scripts_buttons(wineprefix) when
\* find_python_scripts returns files.
RelatedScan(files) ==
    /\ idle # <<>>
    /\ Head(idle).fn = "related"
    /\ idle' = Tail(idle)
    /\ LET prefix == Head(idle).arg
           res == related_loop(files, [rp |-> running_processes, ui |-> ui,
                                       scan |-> {}, raised |-> FALSE],
                               procs, flowbox, prefix)
       IN  /\ running_processes' = res.rp
           /\ ui' = res.ui
           /\ last' = [op |-> "related", d |-> IF res.raised THEN "raised" ELSE "-",
                       out |-> prefix, pgid |-> None, scan |-> res.scan]
    /\ UNCHANGED <<procs, launches, waiter, flowbox, exe_exists, yaml>>
    /\ UNCHANGED gateVars

NextScan ==
    \/ NextFair
    \/ \E files \in ScanFiles : RelatedScan(files)

SpecScan == InitFair /\ [][NextScan]_vars

\* ------------------------------------------------------------------ kill-all
\* The elements of a sequence.
Range(seq) == {seq[k] : k \in 1..Len(seq)}

\* A set of pids in the order pgrep prints them (ascending).
RECURSIVE Ascending(_)
Ascending(pids) ==
    IF pids = {} THEN <<>>
    ELSE LET p == CHOOSE x \in pids : \A y \in pids : x <= y
         IN  <<p>> \o Ascending(pids \ {p})

\* A sequence left in its order.
KeepOrder(seq) == seq

\* list.reverse()
Reverse(seq) == [k \in 1..Len(seq) |-> seq[Len(seq) + 1 - k]]

\* pgrep -aif WineCharm: the application's own process, every other command
\* line holding the name, and the shells of the launches.
KillAllWinecharmPids(h, ps) ==
    {p \in h.alive : h.cmd[p].name} \cup {Pid(p) : p \in WinecharmPids(ps)}

\* pgrep -aif \.exe: every command line holding ".exe"; those of the
\* launches' shells, payloads and their children do.
KillAllExeListing(h, ps) ==
    Ascending({p \in h.alive : h.cmd[p].exe}
              \cup {Pid(p) : p \in {q \in ps : q.kind \in {"sh", "exe", "kid"}}})

\* A listing taken whole: nothing is skipped.
EligibleAll(listing, winecharm_pids) == Reverse(listing)

\* pids: the listed pids that are not 1 and not of winecharm_pids, reversed.
Eligible(listing, winecharm_pids) ==
    Reverse(SelectSeq(listing, LAMBDA pid : pid # InitPid /\ pid \notin winecharm_pids))

\* A kill loop without the two except clauses: the first os.kill that raises
\* ends it.
RECURSIVE KillEachAborts(_, _, _, _)
KillEachAborts(pids, gone, foreign, st) ==
    IF pids = <<>> THEN st
    ELSE LET pid == Head(pids)
             st1 == [st EXCEPT !.tried = Append(@, pid)]
         IN  IF pid \in gone \/ pid \in foreign
             THEN [st1 EXCEPT !.raised = TRUE]
             ELSE KillEachAborts(Tail(pids), gone, foreign,
                                 [st1 EXCEPT !.killed = @ \cup {pid}])

\* for pid in pids: os.kill(pid, SIGKILL).  A pid that is gone raises
\* ProcessLookupError, one of another user PermissionError; both are caught
\* inside the loop.  st is [tried, killed, raised].
RECURSIVE KillEach(_, _, _, _)
KillEach(pids, gone, foreign, st) ==
    IF pids = <<>> THEN st
    ELSE LET pid == Head(pids)
             st1 == [st EXCEPT !.tried = Append(@, pid)]
         IN  IF pid \in gone \/ pid \in foreign
             THEN KillEach(Tail(pids), gone, foreign, st1)
             ELSE KillEach(Tail(pids), gone, foreign,
                           [st1 EXCEPT !.killed = @ \cup {pid}])

\* on_kill_all_clicked.  gone: the listed processes that exit between the
\* listing and their kill.  An empty first listing makes pgrep return 1
\* (CalledProcessError): nothing is killed; so does an empty second one.  Then
\* the registry is cleared and create_script_list rebuilds the rows.  If the
\* application's own process is killed, or an exception leaves the loop,
\* nothing after the loop runs.
on_kill_all_clicked(gone) ==
    LET winecharm_pids == KillAllWinecharmPids(host, procs)
        listing == KillAllExeListing(host, procs)
        pids == IF winecharm_pids = {} THEN <<>> ELSE Eligible(listing, winecharm_pids)
        res == KillEach(pids, gone, host.foreign,
                        [tried |-> <<>>, killed |-> {}, raised |-> FALSE])
        ended == res.raised \/ SelfPid \in res.killed
    IN  /\ SelfPid \in host.alive
        /\ gone \subseteq (Range(pids) \cap HostPids) \ {InitPid, SelfPid}
        /\ host' = [host EXCEPT !.alive = (@ \ gone) \ res.killed,
                                !.tried = res.tried,
                                !.raised = res.raised]
        /\ procs' = {p \in procs : Pid(p) \notin res.killed}
        /\ running_processes' = IF ended THEN running_processes ELSE {}
        /\ flowbox' = IF ended THEN flowbox ELSE Scripts
        /\ last' = [op |-> "kill_all", d |-> "-",
                    out |-> IF ended THEN "raised" ELSE "done",
                    pgid |-> None, scan |-> {}]
        /\ UNCHANGED <<launches, waiter, idle, ui, exe_exists, yaml>>
        /\ UNCHANGED <<node, primary, dbus, inst, backlog, posted, workers, prober,
                       slept, msgs>>

\* A process of the machine exits.
HostExits(p) ==
    /\ p \in host.alive \ {InitPid, SelfPid}
    /\ host' = [host EXCEPT !.alive = @ \ {p}]
    /\ last' = Quiet
    /\ UNCHANGED <<running_processes, procs, launches, waiter, idle, flowbox, ui,
                   exe_exists, yaml>>
    /\ UNCHANGED <<node, primary, dbus, inst, backlog, posted, workers, prober,
                   slept, msgs>>

\* The machine when the application runs: the application's command line
\* holds its name (it is started as winecharm) and ".exe" (its file
\* argument); process 1 is another user's and its command line holds ".exe"
\* too, so that both are in the second listing; the two other processes have
\* any command line and any owner.
InitKill ==
    /\ node = None
    /\ primary = None
    /\ dbus = TRUE
    /\ inst = <<>>
    /\ backlog = <<>>
    /\ posted = <<>>
    /\ workers = {}
    /\ prober = "run"
    /\ slept = [L \in 1..MaxLaunch |-> 0]
    /\ msgs = 0
    /\ \E others \in [HostPids \ {InitPid, SelfPid} -> [name : BOOLEAN, exe : BOOLEAN]],
          foreign \in SUBSET (HostPids \ {InitPid, SelfPid}) :
          host = [cmd |-> [p \in HostPids |->
                              IF p = SelfPid THEN CmdLine(TRUE, TRUE)
                              ELSE IF p = InitPid THEN CmdLine(FALSE, TRUE)
                              ELSE others[p]],
                  alive |-> HostPids, foreign |-> foreign \cup {InitPid},
                  tried |-> <<>>, raised |-> FALSE]
    /\ running_processes = {}
    /\ procs = {}
    /\ launches = <<>>
    /\ waiter = <<>>
    /\ idle = <<>>
    /\ flowbox = Scripts
    /\ ui = [d \in Scripts |-> Button("play", "Play", "created")]
    /\ exe_exists = [d \in Scripts |-> TRUE]
    /\ yaml = [d \in Scripts |-> Charm("X", d)]
    /\ last = Quiet

NextKill ==
    \/ \E gone \in SUBSET HostPids : on_kill_all_clicked(gone)
    \/ \E p \in HostPids : HostExits(p)
    \/ ToggleNoFork("A")
    \/ \E p \in procs : ProcessExits(p)

SpecKill == InitKill /\ [][NextKill]_vars

\* Kill-all among the launches, exits, waiters, prober and idle callbacks of
\* the runs without forks; the machine holds process 1 and the application.
NextWipe ==
    \/ NextFair
    \/ \E gone \in SUBSET HostPids : on_kill_all_clicked(gone)

SpecWipe == InitFair /\ [][NextWipe]_vars

\* ------------------------------------------- a stop on the whole machine
\* pgrep -aif <executable name> beyond the launches: in these runs the
\* command lines of the machine that hold ".exe" hold the name of the
\* executable that is stopped (as a file argument or a path), the
\* application's own among them.
HostListed(h) == {p \in h.alive : h.cmd[p].exe}

\* A loop that skips nothing.
SkippedNone(pid, winecharm_pids) == FALSE

\* if int(pid) in winecharm_pids: continue
Skipped(pid, winecharm_pids) == pid \in winecharm_pids

\* The loop of terminate_script over pids_to_kill.  st is [rp, ui, ps, alive,
\* tried, raised]: registry, buttons, the processes of the launches and of the
\* machine that are alive, the pids os.kill was called with, and whether the
\* handler has ended: ProcessLookupError is caught, PermissionError is not,
\* and a SIGKILL to the application's own process ends it.
RECURSIVE StopLoop(_, _, _, _, _, _, _)
StopLoop(pids, skip, gone, st, d, info, fb) ==
    IF pids = <<>> \/ st.raised THEN st
    ELSE LET pid == Head(pids)
             st1 == [st EXCEPT !.tried = Append(@, pid)]
         IN  IF Skipped(pid, skip)
             THEN StopLoop(Tail(pids), skip, gone, st, d, info, fb)
             ELSE IF pid \in gone \/ pid \notin (st.alive \cup {Pid(p) : p \in st.ps})
             THEN StopLoop(Tail(pids), skip, gone, st1, d, info, fb)
             ELSE IF pid \in host.foreign
             THEN [st1 EXCEPT !.raised = TRUE]
             ELSE IF pid = SelfPid
             THEN [st1 EXCEPT !.raised = TRUE, !.alive = @ \ {pid}]
             ELSE LET ps1 == {p \in st.ps : Pid(p) # pid}
                      u1 == reset_buttons(st.ui, d, info.play_icon)
                      ref == update_related_scripts_buttons(st.rp, u1, ps1, fb, Wineprefix(d))
                  IN  StopLoop(Tail(pids), skip, gone,
                               [st1 EXCEPT !.rp = ref[1], !.ui = ref[2], !.ps = ps1,
                                           !.alive = @ \ {pid}],
                               d, info, fb)

\* toggle_play_stop on a registered descriptor: terminate_script pops the
\* record, lists the pids for the executable name and those of the
\* application, and kills; then the play icon is shown.  gone: the listed
\* processes of the machine that exit between the listing and their kill.
StopHost(d, gone) ==
    LET info == DictGet(running_processes, d)
        pids_to_kill == Ascending(HostListed(host)
                                  \cup {Pid(p) : p \in PgrepFull(procs, d)})
        winecharm_pids == KillAllWinecharmPids(host, procs)
        st == StopLoop(pids_to_kill, winecharm_pids, gone,
                       [rp |-> DictPop(running_processes, d), ui |-> ui, ps |-> procs,
                        alive |-> host.alive \ gone, tried |-> <<>>, raised |-> FALSE],
                       d, info, flowbox)
    IN  /\ HasKey(running_processes, d)
        /\ SelfPid \in host.alive
        /\ gone \subseteq HostListed(host) \ {InitPid, SelfPid}
        /\ running_processes' = st.rp
        /\ procs' = st.ps
        /\ ui' = IF st.raised THEN st.ui ELSE ShowPlay(st.ui, d)
        /\ host' = [host EXCEPT !.alive = st.alive, !.tried = st.tried,
                                !.raised = st.raised]
        /\ last' = [op |-> "stop", d |-> d,
                    out |-> IF st.raised THEN "raised" ELSE "returned",
                    pgid |-> info.pgid, scan |-> {}]
        /\ UNCHANGED <<launches, waiter, idle, flowbox, exe_exists, yaml>>
        /\ UNCHANGED <<node, primary, dbus, inst, backlog, posted, workers, prober,
                       slept, msgs>>

\* A click on the play/stop control of d.
ToggleHost(d) ==
    \/ \E gone \in SUBSET HostPids : StopHost(d, gone)
    \/ /\ ~HasKey(running_processes, d)
       /\ SelfPid \in host.alive
       /\ \E button \in ClickButtons(d) : launch_script(d, button, {{}})

\* The machine when the application runs, as for kill-all, except that the
\* command line of process 1 holds no executable's name.
InitStop ==
    /\ node = None
    /\ primary = None
    /\ dbus = TRUE
    /\ inst = <<>>
    /\ backlog = <<>>
    /\ posted = <<>>
    /\ workers = {}
    /\ prober = "run"
    /\ slept = [L \in 1..MaxLaunch |-> 0]
    /\ msgs = 0
    /\ \E others \in [HostPids \ {InitPid, SelfPid} -> [name : BOOLEAN, exe : BOOLEAN]],
          foreign \in SUBSET (HostPids \ {InitPid, SelfPid}) :
          host = [cmd |-> [p \in HostPids |->
                              IF p = SelfPid THEN CmdLine(TRUE, TRUE)
                              ELSE IF p = InitPid THEN CmdLine(FALSE, FALSE)
                              ELSE others[p]],
                  alive |-> HostPids, foreign |-> foreign \cup {InitPid},
                  tried |-> <<>>, raised |-> FALSE]
    /\ running_processes = {}
    /\ procs = {}
    /\ launches = <<>>
    /\ waiter = <<>>
    /\ idle = <<>>
    /\ flowbox = Scripts
    /\ ui = [d \in Scripts |-> Button("play", "Play", "created")]
    /\ exe_exists = [d \in Scripts |-> TRUE]
    /\ yaml = [d \in Scripts |-> Charm("X", d)]
    /\ last = Quiet

NextStop ==
    \/ ToggleHost("A")
    \/ \E p \in HostPids : HostExits(p)
    \/ \E p \in procs : ProcessExits(p)

SpecStop == InitStop /\ [][NextStop]_vars

\* =================================================== strings, paths and files
\* A string is the sequence of its characters.  SepChars is "||".
SepChars == <<"|", "|">>

\* The size of the buffer of conn.recv(1024).
RecvSize == 1024

\* conn.recv(1024).decode(): the first RecvSize characters of what was sent.
Recv(data) == SubSeq(data, 1, IF Len(data) < RecvSize THEN Len(data) ELSE RecvSize)

\* f"{os.getcwd()}||{args.file}"
Format(cwd, file) == cwd \o SepChars \o file

\* message.split("||"): the pieces between the occurrences found left to right.
RECURSIVE SplitSep(_, _)
SplitSep(str, piece) ==
    IF str = <<>> THEN <<piece>>
    ELSE IF Len(str) >= 2 /\ SubSeq(str, 1, 2) = SepChars
         THEN <<piece>> \o SplitSep(SubSeq(str, 3, Len(str)), <<>>)
         ELSE SplitSep(Tail(str), Append(piece, Head(str)))

\* file_path.split("/")
RECURSIVE SplitSlash(_, _)
SplitSlash(str, piece) ==
    IF str = <<>> THEN <<piece>>
    ELSE IF Head(str) = "/"
         THEN <<piece>> \o SplitSlash(Tail(str), <<>>)
         ELSE SplitSlash(Tail(str), Append(piece, Head(str)))

\* "/".join(pieces)
RECURSIVE JoinSlash(_)
JoinSlash(pieces) ==
    IF pieces = <<>> THEN <<>>
    ELSE IF Len(pieces) = 1 THEN pieces[1]
    ELSE pieces[1] \o <<"/">> \o JoinSlash(Tail(pieces))

\* Path(str): the components of a path, without the empty ones.
RECURSIVE NonEmpty(_)
NonEmpty(pieces) ==
    IF pieces = <<>> THEN <<>>
    ELSE (IF Head(pieces) = <<>> THEN <<>> ELSE <<Head(pieces)>>) \o NonEmpty(Tail(pieces))

Components(str) == NonEmpty(SplitSlash(str, <<>>))

IsAbsolute(str) == str # <<>> /\ Head(str) = "/"

\* Path(cwd) / directory: an absolute right operand replaces the left one.
PathJoin(cwd, directory) ==
    IF IsAbsolute(directory) THEN Components(directory)
    ELSE Components(cwd) \o Components(directory)

\* fnmatch of a name against a pattern with *, ? and [set].
RECURSIVE ClosingBracket(_, _)
ClosingBracket(pat, k) ==
    IF k > Len(pat) THEN 0
    ELSE IF pat[k] = "]" THEN k
    ELSE ClosingBracket(pat, k + 1)

RECURSIVE FnMatch(_, _)
FnMatch(name, pat) ==
    IF pat = <<>> THEN name = <<>>
    ELSE IF Head(pat) = "*"
         THEN FnMatch(name, Tail(pat)) \/ (name # <<>> /\ FnMatch(Tail(name), pat))
    ELSE IF Head(pat) = "?"
         THEN name # <<>> /\ FnMatch(Tail(name), Tail(pat))
    ELSE IF Head(pat) = "[" /\ ClosingBracket(pat, 3) # 0
         THEN LET k == ClosingBracket(pat, 3)
              IN  /\ name # <<>>
                  /\ \E j \in 2..(k - 1) : pat[j] = Head(name)
                  /\ FnMatch(Tail(name), SubSeq(pat, k + 1, Len(pat)))
    ELSE name # <<>> /\ Head(name) = Head(pat) /\ FnMatch(Tail(name), Tail(pat))

\* The file system the server looks at: the directories /h and /h/g, the files
\* /h/a, /h/[a] and /h/g/c.
FsDirs == { <<>>, <<<<"h">>>>, <<<<"h">>, <<"g">>>> }

FsFiles == { <<<<"h">>, <<"a">>>>,
             <<<<"h">>, <<"[", "a", "]">>>>,
             <<<<"h">>, <<"g">>, <<"c">>>> }

\* Path.exists()
PathExists(path) == path \in FsDirs \cup FsFiles

\* search_path.glob(pattern): the entries of the directory the pattern matches.
Glob(search_path, pattern) ==
    {e \in FsDirs \cup FsFiles :
        /\ Len(e) = Len(search_path) + 1
        /\ SubSeq(e, 1, Len(search_path)) = search_path
        /\ FnMatch(e[Len(e)], pattern)}

\* The matches in the order glob yields them.
RECURSIVE InOrder(_)
InOrder(paths) ==
    IF paths = {} THEN <<>>
    ELSE LET e == CHOOSE x \in paths : \A y \in paths : Len(x[Len(x)]) <= Len(y[Len(y)])
         IN  <<e>> \o InOrder(paths \ {e})

\* One message of the accept loop.  The result is [alive, paths]: whether the
\* thread survives the message, and the paths handed to process_cli_file.
\* An unpacking of other than two pieces and an empty pattern raise ValueError,
\* which nothing catches.
HandleMessage(message) ==
    LET pieces == SplitSep(message, <<>>)
    IN  IF message = <<>> THEN [alive |-> TRUE, paths |-> <<>>]
        ELSE IF Len(pieces) # 2 THEN [alive |-> FALSE, paths |-> <<>>]
        ELSE LET cwd == pieces[1]
                 file_path == pieces[2]
                 parts == SplitSlash(file_path, <<>>)
                 pattern == parts[Len(parts)]
                 directory == JoinSlash(SubSeq(parts, 1, Len(parts) - 1))
                 search_path == PathJoin(cwd, directory)
             IN  IF ~PathExists(search_path) THEN [alive |-> TRUE, paths |-> <<>>]
                 ELSE IF pattern = <<>> THEN [alive |-> FALSE, paths |-> <<>>]
                 ELSE [alive |-> TRUE, paths |-> InOrder(Glob(search_path, pattern))]

\* ============================================================ the gateway
\* Connections a listening socket holds before they are accepted.
MaxBacklog == 2
\* Messages sent to the socket in one run of the model.
MaxMsgs == 3

Instances == {1, 2}

\* The directory the instances are started in.
Cwd == <<"/", "h">>

\* args.file of a start: none (the empty string), or a file name.
FileArgs == { <<>>, <<"a">> }

\* An instance: file is args.file; pc is the position of main; srv is the
\* position of server_thread; ui whether the window was presented; sent the
\* number of messages it transmitted; found whether SOCKET_FILE was bound and
\* connectable when it was started; touched whether it unlinked or bound
\* SOCKET_FILE; got the senders of the messages its accept loop received;
\* stale whether SOCKET_FILE was the leftover of a killed instance when it was
\* started; unbound whether its server.bind raised.
Instance(file) ==
    [file |-> file, pc |-> "init", srv |-> "none", ui |-> FALSE, sent |-> 0,
     found |-> FALSE, touched |-> FALSE, got |-> {}, stale |-> FALSE,
     unbound |-> FALSE]

\* The process of an instance is running.  "crashed" is a process ended by an
\* exception nothing caught, "killed" one ended from outside.
Alive(i) == inst[i].pc \notin {"init", "exited", "crashed", "killed"}

\* A connect to i's socket succeeds: listen() was called and the socket is open.
Listening(i) == Alive(i) /\ inst[i].srv = "accept"

Connectable == node # None /\ Listening(node)

\* SOCKET_FILE exists and the process that bound it was killed.
StalePath == node # None /\ inst[node].pc = "killed"

\* What becomes of server_thread (a daemon thread) when its process ends.
ThreadAtExit(srv) == IF srv = "none" THEN "none" ELSE "dead"

InitGate ==
    /\ node = None
    /\ primary = None
    /\ dbus \in BOOLEAN
    /\ inst \in {<<Instance(f1), Instance(f2)>> : f1 \in FileArgs, f2 \in FileArgs}
    /\ backlog = [i \in Instances |-> <<>>]
    /\ posted = <<>>
    /\ workers = {}
    /\ prober = "run"
    /\ slept = [L \in 1..MaxLaunch |-> 0]
    /\ host = HostIdle
    /\ msgs = 0
    /\ running_processes = {}
    /\ procs = {}
    /\ launches = <<>>
    /\ waiter = <<>>
    /\ idle = <<>>
    /\ flowbox = {}
    /\ ui = [d \in Scripts |-> Button("play", "Play", "created")]
    /\ exe_exists = [d \in Scripts |-> TRUE]
    /\ yaml = [d \in Scripts |-> Charm("X", d)]
    /\ last = Quiet

\* main() up to the test of SOCKET_FILE: with a file argument the path is
\* tested with exists(); without one main goes on to start the server.
MainStart(i) ==
    /\ inst[i].pc = "init"
    /\ inst' = [inst EXCEPT ![i].found = Connectable,
                            ![i].stale = StalePath,
                            ![i].pc = IF inst[i].file # <<>> /\ node # None
                                      THEN "connect" ELSE "serve"]
    /\ UNCHANGED <<node, primary, dbus, slept, host, prober, workers, backlog, posted, msgs>>
    /\ UNCHANGED runVars

\* client.connect and client.sendall.  A path that is gone raises
\* FileNotFoundError, which main does not catch; a socket that is not
\* listening raises ConnectionRefusedError, and main goes on as a server.
MainConnect(i) ==
    /\ inst[i].pc = "connect"
    /\ IF node = None
       THEN /\ inst' = [inst EXCEPT ![i].pc = "crashed"]
            /\ UNCHANGED <<backlog, msgs>>
       ELSE IF Listening(node)
       THEN /\ Len(backlog[node]) < MaxBacklog
            /\ msgs < MaxMsgs
            /\ msgs' = msgs + 1
            /\ backlog' = [backlog EXCEPT ![node] =
                              Append(@, [id |-> msgs + 1, from |-> i,
                                         data |-> Format(Cwd, inst[i].file)])]
            /\ inst' = [inst EXCEPT ![i].pc = "exited", ![i].sent = @ + 1]
       ELSE /\ inst' = [inst EXCEPT ![i].pc = "serve"]
            /\ UNCHANGED <<backlog, msgs>>
    /\ UNCHANGED <<node, primary, dbus, slept, host, prober, workers, posted>>
    /\ UNCHANGED runVars

\* app.start_socket_server(): the thread is started.
start_socket_server(i) ==
    /\ inst[i].pc = "serve"
    /\ inst' = [inst EXCEPT ![i].pc = "run", ![i].srv = "start"]
    /\ UNCHANGED <<node, primary, dbus, slept, host, prober, workers, backlog, posted, msgs>>
    /\ UNCHANGED runVars

\* server_thread without its first two lines: the path is not removed before
\* the bind.
ServerNoUnlink(i) ==
    /\ Alive(i)
    /\ inst[i].srv = "start"
    /\ inst' = [inst EXCEPT ![i].srv = "bind"]
    /\ UNCHANGED <<node, primary, dbus, slept, host, prober, workers, backlog, posted, msgs>>
    /\ UNCHANGED runVars

\* server_thread: if SOCKET_FILE.exists(): SOCKET_FILE.unlink()
ServerUnlink(i) ==
    /\ Alive(i)
    /\ inst[i].srv = "start"
    /\ node' = None
    /\ inst' = [inst EXCEPT ![i].srv = "bind",
                            ![i].touched = @ \/ node # None]
    /\ UNCHANGED <<primary, dbus, slept, host, prober, workers, backlog, posted, msgs>>
    /\ UNCHANGED runVars

\* server_thread: server.bind(str(SOCKET_FILE)); an existing path raises
\* OSError, which ends the thread.
ServerBind(i) ==
    /\ Alive(i)
    /\ inst[i].srv = "bind"
    /\ IF node = None
       THEN /\ node' = i
            /\ inst' = [inst EXCEPT ![i].srv = "bound", ![i].touched = TRUE]
       ELSE /\ inst' = [inst EXCEPT ![i].srv = "dead", ![i].unbound = TRUE]
            /\ UNCHANGED node
    /\ UNCHANGED <<primary, dbus, slept, host, prober, workers, backlog, posted, msgs>>
    /\ UNCHANGED runVars

\* server_thread: server.listen()
ServerListen(i) ==
    /\ Alive(i)
    /\ inst[i].srv = "bound"
    /\ inst' = [inst EXCEPT ![i].srv = "accept"]
    /\ UNCHANGED <<node, primary, dbus, slept, host, prober, workers, backlog, posted, msgs>>
    /\ UNCHANGED runVars

\* server_thread: one turn of the accept loop, from accept() to the last
\* GLib.idle_add of the message.
ServerAccept(i) ==
    /\ Listening(i)
    /\ backlog[i] # <<>>
    /\ LET m == Head(backlog[i])
           res == HandleMessage(Recv(m.data))
       IN  /\ posted' = posted \o [k \in 1..Len(res.paths) |->
                                      [by |-> i, id |-> m.id, path |-> res.paths[k]]]
           /\ inst' = [inst EXCEPT ![i].srv = IF res.alive THEN "accept" ELSE "dead",
                                   ![i].got = @ \cup {m.from}]
    /\ backlog' = [backlog EXCEPT ![i] = Tail(@)]
    /\ UNCHANGED <<node, primary, dbus, slept, host, prober, workers, msgs>>
    /\ UNCHANGED runVars

\* app.run(sys.argv).  The first instance to register the application id runs
\* on_startup and on_activate and presents the window; with a session bus a
\* later instance is remote: run() returns at once and presents nothing.
AppRun(i) ==
    /\ inst[i].pc = "run"
    /\ IF dbus /\ primary # None
       THEN /\ inst' = [inst EXCEPT ![i].pc = "cleanup"]
            /\ UNCHANGED primary
       ELSE /\ inst' = [inst EXCEPT ![i].pc = "running", ![i].ui = TRUE]
            /\ primary' = IF primary = None THEN i ELSE primary
    /\ UNCHANGED <<node, dbus, slept, host, prober, workers, backlog, posted, msgs>>
    /\ UNCHANGED runVars

\* The window is closed or quit is chosen: app.run returns.
Quit(i) ==
    /\ inst[i].pc = "running"
    /\ inst' = [inst EXCEPT ![i].pc = "cleanup"]
    /\ primary' = IF primary = i THEN None ELSE primary
    /\ UNCHANGED <<node, dbus, slept, host, prober, workers, backlog, posted, msgs>>
    /\ UNCHANGED runVars

\* main() after app.run without its last two lines: the process ends and the
\* path stays.
MainNoUnlink(i) ==
    /\ inst[i].pc = "cleanup"
    /\ inst' = [inst EXCEPT ![i].pc = "exited", ![i].srv = ThreadAtExit(@)]
    /\ backlog' = [backlog EXCEPT ![i] = <<>>]
    /\ UNCHANGED <<node, primary, dbus, slept, host, prober, workers, posted, msgs>>
    /\ UNCHANGED runVars

\* main() after app.run: if SOCKET_FILE.exists(): SOCKET_FILE.unlink(); the
\* process ends, and its daemon thread and the socket's connections with it.
MainCleanup(i) ==
    /\ inst[i].pc = "cleanup"
    /\ node' = None
    /\ inst' = [inst EXCEPT ![i].pc = "exited",
                            ![i].srv = ThreadAtExit(@),
                            ![i].touched = @ \/ node # None]
    /\ backlog' = [backlog EXCEPT ![i] = <<>>]
    /\ UNCHANGED <<primary, dbus, slept, host, prober, workers, posted, msgs>>
    /\ UNCHANGED runVars

NextGate ==
    \/ \E i \in Instances : MainStart(i)
    \/ \E i \in Instances : MainConnect(i)
    \/ \E i \in Instances : start_socket_server(i)
    \/ \E i \in Instances : ServerUnlink(i)
    \/ \E i \in Instances : ServerBind(i)
    \/ \E i \in Instances : ServerListen(i)
    \/ \E i \in Instances : ServerAccept(i)
    \/ \E i \in Instances : AppRun(i)
    \/ \E i \in Instances : Quit(i)
    \/ \E i \in Instances : MainCleanup(i)

SpecGate == InitGate /\ [][NextGate]_vars

\* ------------------------------------------------- the life of an instance
\* The process of main() is killed (SIGKILL, a power cut): no handler and no
\* line after app.run is executed, SOCKET_FILE stays as it is, the threads
\* and the connections of the process are gone and the bus name is released.
Kill(i) ==
    /\ Alive(i)
    /\ inst' = [inst EXCEPT ![i].pc = "killed", ![i].srv = ThreadAtExit(@)]
    /\ backlog' = [backlog EXCEPT ![i] = <<>>]
    /\ primary' = IF primary = i THEN None ELSE primary
    /\ UNCHANGED <<node, dbus, slept, host, prober, workers, posted, msgs>>
    /\ UNCHANGED runVars

\* handle_sigint (the definition of line 1716, the later of the two in the
\* class), registered for SIGINT in __init__: SOCKET_FILE is removed if it
\* exists and self.quit() makes app.run return.
handle_sigint(i) ==
    /\ inst[i].pc = "running"
    /\ node' = None
    /\ inst' = [inst EXCEPT ![i].pc = "cleanup",
                            ![i].touched = @ \/ node # None]
    /\ primary' = IF primary = i THEN None ELSE primary
    /\ UNCHANGED <<dbus, slept, host, prober, workers, backlog, posted, msgs>>
    /\ UNCHANGED runVars

NextLife ==
    \/ NextGate
    \/ \E i \in Instances : Kill(i)
    \/ \E i \in Instances : handle_sigint(i)

SpecLife == InitGate /\ [][NextLife]_vars

\* main and server_thread are threads of a running process: each goes on to its
\* next line.
SpecLifeFair ==
    /\ SpecLife
    /\ \A i \in Instances :
          /\ WF_vars(MainConnect(i))
          /\ WF_vars(start_socket_server(i))
          /\ WF_vars(ServerUnlink(i))
          /\ WF_vars(ServerBind(i))
          /\ WF_vars(ServerListen(i))

\* ------------------------------------------------------------ the accept loop
\* What a client may write to the socket: a working directory that exists or
\* not, with a file name, a name with brackets, a path into a directory, a
\* name of no file, a wildcard or a path that ends in a slash; an empty
\* message; a message without separator; a message with two of them.
IpcCwds == { <<"/", "h">>, <<"/", "x">> }

IpcFiles == { <<"a">>, <<"[", "a", "]">>, <<"g", "/", "c">>, <<"n">>, <<"*">>,
              <<"g", "/">> }

Messages ==
    {Format(c, f) : c \in IpcCwds, f \in IpcFiles}
        \cup { <<>>, <<"/", "h", "a">>, Format(Format(Cwd, <<"a">>), <<"a">>) }

\* Instance 1 is up: bound, listening, its window presented.
InitIpc ==
    /\ node = 1
    /\ primary = 1
    /\ dbus = TRUE
    /\ inst = << [Instance(<<>>) EXCEPT !.pc = "running", !.srv = "accept",
                                        !.ui = TRUE, !.touched = TRUE],
                 Instance(<<>>) >>
    /\ backlog = [i \in Instances |-> <<>>]
    /\ posted = <<>>
    /\ workers = {}
    /\ prober = "run"
    /\ slept = [L \in 1..MaxLaunch |-> 0]
    /\ host = HostIdle
    /\ msgs = 0
    /\ running_processes = {}
    /\ procs = {}
    /\ launches = <<>>
    /\ waiter = <<>>
    /\ idle = <<>>
    /\ flowbox = {}
    /\ ui = [d \in Scripts |-> Button("play", "Play", "created")]
    /\ exe_exists = [d \in Scripts |-> TRUE]
    /\ yaml = [d \in Scripts |-> Charm("X", d)]
    /\ last = Quiet

\* A client connects to the socket of instance 1 and sends a message.
ClientSends(message) ==
    /\ node = 1
    /\ Listening(1)
    /\ Len(backlog[1]) < MaxBacklog
    /\ msgs < MaxMsgs
    /\ msgs' = msgs + 1
    /\ backlog' = [backlog EXCEPT ![1] =
                      Append(@, [id |-> msgs + 1, from |-> 0, data |-> message])]
    /\ UNCHANGED <<node, primary, dbus, slept, host, prober, workers, inst, posted>>
    /\ UNCHANGED runVars

NextIpc ==
    \/ \E message \in Messages : ClientSends(message)
    \/ ServerAccept(1)

SpecIpc == InitIpc /\ [][NextIpc]_vars

\* ==================================================================== claims
\* A step in which toggle_play_stop(d, ..) ran: it is the only handler that
\* leaves "launch" or "stop" in last.
ToggleRan(d) == last'.op \in {"launch", "stop"} /\ last'.d = d

\* C1: at-most-one.  Whatever toggles, process exits, probe cycles and group
\* refreshes have happened, running_processes holds at most one Run Record per
\* descriptor; and a toggle on a descriptor that has a Run Record is a stop:
\* it spawns nothing and registers no launch record.
AtMostOneRecord ==
    \A d \in Scripts : Cardinality({r \in running_processes : r.stem = d}) <= 1

C1_AtMostOne ==
    /\ []AtMostOneRecord
    /\ [][\A d \in Scripts :
            (HasKey(running_processes, d) /\ ToggleRan(d))
                => /\ last'.op = "stop"
                   /\ procs' \subseteq procs
                   /\ launches' = launches
                   /\ \A r \in running_processes' : r.proc # None => r \in running_processes]_vars

\* A toggle found a live record, acted as a stop and killed its process.
C1_Witness ==
    /\ last.op = "stop"
    /\ last.out = "killed"
    /\ ~HasKey(running_processes, last.d)

\* C4: group-kill.  A stop on a descriptor whose Run Record names a process
\* group, taken while a forked member of that group (a child of the payload or
\* a worker of the compatibility layer) is alive, leaves no member of the
\* group alive.
C4_GroupKill ==
    [][\A d \in Scripts :
        (/\ ToggleRan(d)
         /\ last'.op = "stop"
         /\ last'.pgid # None
         /\ \E p \in Group(procs, last'.pgid \div 10) : p.kind \in {"kid", "srv"})
            => Group(procs', last'.pgid \div 10) = {}]_vars

C7_TargetMissing ==
    /\ [][\A d \in Scripts :
            (ToggleRan(d) /\ ~HasKey(running_processes, d) /\ ~exe_exists[d])
                => /\ last'.out = "exe_not_found_dialog"
                   /\ running_processes' = running_processes
                   /\ procs' = procs
                   /\ launches' = launches]_vars
    /\ [](last.out = "exe_not_found_dialog" => ~exe_exists[last.d])

\* A click launched a descriptor whose executable is gone: dialog, no record.
C7_Witness ==
    /\ last.op = "launch"
    /\ last.out = "exe_not_found_dialog"
    /\ ~exe_exists[last.d]
    /\ ~HasKey(running_processes, last.d)

\* C8: spawn failed.  A launch that fails inside the try block of
\* launch_script leaves running_processes as it was and leaves no process
\* behind that it spawned.
C8_SpawnFailed ==
    [][\A d \in Scripts :
        (ToggleRan(d) /\ last'.op = "launch" /\ last'.out = "error")
            => /\ running_processes' = running_processes
               /\ procs' = procs]_vars

\* C3: reconciliation convergence.  When the processes of a descriptor that
\* launch_script started have been killed from outside and the descriptor has
\* a Run Record, fair scheduling of the waiters, the prober and the idle queue
\* leads to a state in which it has no Run Record and its button shows Play;
\* and the first probe cycle that looks at such a record finds it finished.
Spawned(d) == \E L \in DOMAIN launches : launches[L] = d

KilledOutside(d) == Spawned(d) /\ {p \in procs : DescOf(p) = d} = {}

Reconciled(d) == ~HasKey(running_processes, d) /\ ui[d].icon = "play"

Accepts(i) == backlog[i] # <<>> /\ backlog'[i] = Tail(backlog[i]) /\ Alive(i)'

\* The calls of process_cli_file a step adds.
NewPosts == SubSeq(posted', Len(posted) + 1, Len(posted'))

\* C2: gateway single-instance.  Two instances started with a file argument:
\* once both have settled (each presents its window with its server thread
\* settled, or has ended, and no connection is pending), one of them is bound
\* to SOCKET_FILE, listening and presenting the window, and the other has sent
\* its one message, ended without a window, and that message was received by
\* the accept loop of the first.
Settled ==
    \A i \in Instances :
        /\ inst[i].pc \in {"running", "exited", "crashed"}
        /\ inst[i].pc = "running" => inst[i].srv \in {"accept", "dead"}
        /\ inst[i].ui => inst[i].pc = "running"
        /\ backlog[i] = <<>>

C2_SingleInstance ==
    ((\A i \in Instances : inst[i].file # <<>>) /\ Settled)
        => \E i \in Instances : \E j \in Instances \ {i} :
              /\ node = i
              /\ Listening(i)
              /\ inst[i].ui
              /\ inst[j].pc = "exited"
              /\ ~inst[j].ui
              /\ inst[j].sent = 1
              /\ j \in inst[i].got

\* C6: an instance that found SOCKET_FILE bound and connectable when it was
\* started, with or without a file argument, never unlinks or binds the path
\* and never presents a window, and when it has ended it has sent one message.
C6_ClientOnly ==
    \A i \in Instances :
        inst[i].found => /\ ~inst[i].touched
                         /\ ~inst[i].ui
                         /\ inst[i].pc = "exited" => inst[i].sent = 1

\* C9: a received message <cwd>||<path> whose path, resolved against cwd, is a
\* file that exists hands that absolute path to process_cli_file exactly once
\* in the turn of the accept loop that receives it.
C9_ForwardedOnce ==
    [][\A i \in Instances :
        Accepts(i) =>
            LET pieces == SplitSep(Head(backlog[i]).data, <<>>)
            IN  (Len(pieces) = 2 /\ PathJoin(pieces[1], pieces[2]) \in FsFiles)
                    => Cardinality({k \in DOMAIN NewPosts :
                            NewPosts[k].path = PathJoin(pieces[1], pieces[2])}) = 1]_vars

\* C10: a received message without the separator, or with more than one, hands
\* nothing to process_cli_file and leaves the accept loop running.
C10_MalformedDropped ==
    [][\A i \in Instances :
        (Accepts(i) /\ Head(backlog[i]).data # <<>>
                    /\ Len(SplitSep(Head(backlog[i]).data, <<>>)) # 2)
            => /\ NewPosts = <<>>
               /\ inst'[i].srv = "accept"]_vars

\* The directory and the pattern a two-piece message resolves to.
SearchPath(message) ==
    LET pieces == SplitSep(message, <<>>)
        parts == SplitSlash(pieces[2], <<>>)
    IN  PathJoin(pieces[1], JoinSlash(SubSeq(parts, 1, Len(parts) - 1)))

Pattern(message) ==
    LET parts == SplitSlash(SplitSep(message, <<>>)[2], <<>>)
    IN  parts[Len(parts)]

\* C11: a received message <cwd>||<path> whose directory does not exist, or
\* whose pattern matches no entry of the directory, hands nothing to
\* process_cli_file and leaves the accept loop running.
C11_NothingResolved ==
    [][\A i \in Instances :
        (/\ Accepts(i)
         /\ Len(SplitSep(Head(backlog[i]).data, <<>>)) = 2
         /\ \/ ~PathExists(SearchPath(Head(backlog[i]).data))
            \/ Glob(SearchPath(Head(backlog[i]).data),
                    Pattern(Head(backlog[i]).data)) = {})
            => /\ NewPosts = <<>>
               /\ inst'[i].srv = "accept"]_vars

\* The process launch L spawned has exited and L's waiter thread has not yet
\* returned from proc.wait().
ExitedUnseen(L) == L \in DOMAIN waiter /\ waiter[L] = "wait" /\ Shell(L) \notin procs

\* The handler that ran last made a group refresh that looked at exactly the
\* descriptors of the environment of d.
EnvRefreshed(d) ==
    /\ last.scan # {}
    /\ \A e \in Scripts : e \in last.scan <=> yaml[e].wineprefix = yaml[d].wineprefix

C13_NoRecordNoOp ==
    [][\A d \in Scripts :
        (last'.op = "terminate" /\ last'.d = d /\ ~HasKey(running_processes, d))
            => /\ last'.out = "returned"
               /\ running_processes' = running_processes
               /\ procs' = procs
               /\ ui' = ui
               /\ idle' = idle]_vars

\* terminate_script returned for a descriptor that has no record while a
\* process running its executable is alive.
C13_Witness ==
    /\ last.op = "terminate"
    /\ last.out = "returned"
    /\ ~HasKey(running_processes, last.d)
    /\ \E p \in procs : DescOf(p) = last.d /\ p.kind = "exe"

\* C14: a stop of d in which every process terminate_script tried to kill had
\* exited before its kill (ProcessLookupError) ends as a stop that killed:
\* d has no Run Record and its button was put back by reset_buttons and shows
\* Play.
C14_GoneAsKilled ==
    [][\A d \in Scripts :
        (/\ ToggleRan(d)
         /\ last'.op = "stop"
         /\ last'.out = "none_killed"
         /\ procs' # procs)
            => /\ ~HasKey(running_processes', d)
               /\ ui'[d] = Button("play", "Play", "reset")]_vars

\* What process_ended(d) leaves once the processes of d have exited: the pair
\* <<registry, buttons>>.
NaturalExit(rp, u, ps, fb, d) ==
    update_related_scripts_buttons(DictPop(rp, d),
                                   [u EXCEPT ![d] = Button("play", "Play", "reset")],
                                   {p \in ps : DescOf(p) # d}, fb, Wineprefix(d))

\* C15: the two termination routes converge.  After a stop (toggle_play_stop
\* through terminate_script) of a descriptor that has a Run Record, the
\* registry holds for it, and its button shows (icon, tooltip, click handler),
\* what process_ended leaves after the natural exit of its processes.
C15_RoutesConverge ==
    [][\A d \in Scripts :
        (ToggleRan(d) /\ last'.op = "stop")
            => LET ne == NaturalExit(running_processes, ui, procs, flowbox, d)
               IN  /\ {r \in running_processes' : r.stem = d} = {r \in ne[1] : r.stem = d}
                   /\ ui'[d] = ne[2][d]]_vars

\* A step of the prober thread: no handler of the owner thread ran, no waiter
\* moved, no process exited, and the idle queue grew.
ProberStep ==
    /\ last' = Quiet
    /\ waiter' = waiter
    /\ procs' = procs
    /\ Len(idle') > Len(idle)

\* C16: a probe cycle leaves the registry and the buttons as they are and
\* posts process_ended to the idle queue for exactly the records it found
\* finished; and a record leaves the registry only in a step of the owner
\* thread that ran process_ended from the idle queue or a stop.
C16_ProberPostsOnly ==
    [][/\ ProberStep =>
            /\ running_processes' = running_processes
            /\ ui' = ui
            /\ idle' = idle \o FinishedCallbacks({r.stem : r \in running_processes},
                                                 running_processes, procs)
       /\ \A d \in Scripts :
            (HasKey(running_processes, d) /\ ~HasKey(running_processes', d))
                => \/ last'.op = "stop" /\ last'.d = d
                   \/ /\ last'.op = "process_ended" /\ last'.d = d
                      /\ idle # <<>>
                      /\ Head(idle) = Callback("process_ended", d)
                      /\ idle' = Tail(idle)]_vars

\* The prober posted process_ended for a record that is still registered: no
\* waiter has posted anything.
C16_Witness ==
    /\ \E k \in DOMAIN idle :
            idle[k].fn = "process_ended" /\ HasKey(running_processes, idle[k].arg)
    /\ waiter # <<>>
    /\ \A L \in DOMAIN waiter : waiter[L] \in {"wait", "none"}

NewCallbacks == {idle'[k] : k \in (Len(idle) + 1)..Len(idle')}

C20_OwnGroup ==
    [][\A d \in Scripts :
        /\ (ToggleRan(d) /\ last'.out = "launched")
              => LET L == Len(launches')
                     r == DictGet(running_processes', d)
                 IN  /\ launches'[L] = d
                     /\ Group(procs, L) = {}
                     /\ Shell(L) \in procs'
                     /\ \A p \in procs' \ procs : p.grp = L
                     /\ r.proc = L /\ r.pid = Pid(Shell(L)) /\ r.pgid = Pgid(L)
                     /\ \A K \in 1..(L - 1) : Pgid(K) # r.pgid
        /\ (ToggleRan(d) /\ last'.op = "stop")
              => \A gone \in SUBSET (PgrepFull(procs, d) \ WinecharmPids(procs)) :
                    LET st == terminate_script(running_processes, ui, procs, flowbox, d, gone)
                    IN  (procs' = st.ps /\ running_processes' = st.rp)
                            => \A p \in (procs \ gone) \ st.ps : DescOf(p) = d]_vars

\* The step is the one in which launch L's waiter returns from proc.wait().
ExitObserved(L) == L \in DOMAIN waiter /\ waiter[L] = "wait" /\ waiter'[L] = "sleep"

\* The step is the one in which launch L's waiter ends.
RefreshScheduled(L) == Sleeping(L) /\ waiter'[L] = "done"

C22_WidgetsOnOwner ==
    [][(flowbox' # flowbox \/ ui' # ui \/ running_processes' # running_processes)
            => last'.op # "-"]_vars

\* An instance started on a stale path is bound, listening and the owner of
\* the path.
Recovered(i) == Listening(i) /\ node = i

\* The instance started on a stale path did not fail: no exception ended
\* main, its bind did not raise, it left only after its window was presented,
\* the path is gone when it binds and the path is its own once it has bound.
StaleSafe(i) ==
    /\ inst[i].pc # "crashed"
    /\ ~inst[i].unbound
    /\ inst[i].pc \in {"cleanup", "exited"} => inst[i].ui
    /\ (Alive(i) /\ inst[i].srv = "bind") => node = None
    /\ (inst[i].pc \in {"run", "running"} /\ inst[i].srv \in {"bound", "accept"})
          => node = i

\* C23: an instance started while SOCKET_FILE exists and its owner was killed
\* removes the path before it binds, is never ended or left unbound by the
\* stale file, and, unless it is quit or killed first, comes to listen on a
\* path of its own that a later client can connect to.
C23_StaleRecovery ==
    /\ [](\A i \in Instances : inst[i].stale => StaleSafe(i))
    /\ \A i \in Instances :
          inst[i].stale ~> (Recovered(i) \/ inst[i].pc \in {"cleanup", "exited", "killed"})

C23_Witness == \E i \in Instances : inst[i].stale /\ Recovered(i) /\ Connectable


\* The instance bound SOCKET_FILE: its server thread is past server.bind.
Bound(i) == inst[i].srv \in {"bound", "accept"}

\* C24: when an instance that bound SOCKET_FILE leaves main after app.run
\* returned (the window was closed, quit was chosen or SIGINT was handled),
\* SOCKET_FILE does not exist.
C24_ShutdownRemovesPath ==
    [][\A i \in Instances :
          (inst[i].pc = "cleanup" /\ Bound(i) /\ inst'[i].pc = "exited")
              => node' = None]_vars

C24_Witness ==
    \E i \in Instances :
        inst[i].pc = "exited" /\ inst[i].ui /\ inst[i].got # {} /\ node = None


\* C25: an instance whose server.bind raised while no instance can be
\* connected to does not go on to run the application and present its window.
C25_BindFailureEscalated ==
    \A i \in Instances :
        (inst[i].unbound /\ ~Connectable) => ~(inst[i].pc = "running" /\ inst[i].ui)


C27_BestEffort ==
    [][last'.op = "kill_all"
          => /\ Range(host'.tried) =
                   {pid \in Range(KillAllExeListing(host, procs)) :
                       pid # InitPid /\ pid \notin KillAllWinecharmPids(host, procs)}
             /\ ~host'.raised
             /\ last'.out = "done"
             /\ running_processes' = {}]_vars

\* A kill-all whose first os.kill was refused and which went on to the next pid.
C27_Witness ==
    /\ last.op = "kill_all" /\ last.out = "done"
    /\ Len(host.tried) >= 2
    /\ host.tried[1] \in host.foreign


\* C28: a descriptor file that does not load fails only its own examination:
\* a group refresh still examines every descriptor of the prefix.
C28_RefreshContained ==
    [][last'.op = "related" => Rescanned(last'.out) \subseteq last'.scan]_vars

\* C29: process_ended retires a Run Record that holds a handle only when the
\* process of that handle has exited: a verdict reached for an earlier record
\* of the descriptor does not retire the record of a later launch.
C29_NoStaleVerdict ==
    [][last'.op = "process_ended"
          => \A r \in running_processes :
                 (r.stem = last'.d /\ r \notin running_processes' /\ r.proc # None)
                     => Shell(r.proc) \notin procs]_vars


\* The payload of launch L and what it forked: the processes of the group
\* besides the shell.
Payload(ps, L) == {p \in Group(ps, L) : p.kind # "sh"}

C31_OneLiveProcess ==
    \A L1 \in DOMAIN launches, L2 \in DOMAIN launches :
        (L1 # L2 /\ launches[L1] = launches[L2])
            => ~({[grp |-> L1, kind |-> "exe"], [grp |-> L2, kind |-> "exe"]} \subseteq procs)

C33_StopIffRecord ==
    \A d \in Scripts : (ui[d].icon = "stop") <=> HasKey(running_processes, d)


\* C34: the path of an instance that is bound, listening and running is
\* removed by no step of another instance: while its owner stays where it is
\* in main, SOCKET_FILE stays its own.
C34_OwnerOnlyUnlinks ==
    [][(node # None /\ Listening(node) /\ inst'[node].pc = inst[node].pc)
          => node' = node]_vars


TwiceInARow == last.op = "process_ended" /\ last'.op = "process_ended" /\ last'.d = last.d

C38_ReverseOrder ==
    [][last'.op = "kill_all"
          => LET listing == KillAllExeListing(host, procs)
                 tried == host'.tried
             IN  \A a \in 1..Len(listing), b \in 1..Len(listing) :
                     (a < b /\ listing[a] \in Range(tried) /\ listing[b] \in Range(tried))
                         => \E i \in 1..Len(tried), j \in 1..Len(tried) :
                                i < j /\ tried[i] = listing[b] /\ tried[j] = listing[a]]_vars

\* A kill-all that signalled three processes, the highest pid first.
C38_Witness ==
    /\ last.op = "kill_all"
    /\ Len(host.tried) >= 3
    /\ host.tried[1] > host.tried[2] /\ host.tried[2] > host.tried[3]

\* C39: kill-all leaves running_processes empty; and a process_ended that
\* runs for a descriptor whose payload the kill-all signalled retires no Run
\* Record whose handle's process is alive.
C39_ClearedForGood ==
    [][/\ last'.op = "kill_all" => running_processes' = {}
       /\ \A L \in DOMAIN launches :
             (/\ last'.op = "process_ended" /\ last'.d = launches[L]
              /\ Pid([grp |-> L, kind |-> "exe"]) \in Range(host.tried))
                 => \A r \in running_processes :
                        (r.stem = last'.d /\ r.proc # None /\ Shell(r.proc) \in procs)
                            => r \in running_processes']_vars
====
